---- MODULE Spec2Model ----
(***************************************************************************)
(* Model of package gas (gas_price.go): the ETH Gas Station client, its    *)
(* unit conversion (parseGasPriceToWei), the tier lookup                   *)
(* (parseSuggestedGasPrice), the uncached entry points, the process-wide   *)
(* endpoint selection (SetKey / loadGasPrices) and the cached suggester    *)
(* (NewGasPriceSuggester / gasPriceManager.suggestCachedGasPrice).         *)
(***************************************************************************)
EXTENDS Integers, Sequences, FiniteSets, TLC

(***************************************************************************)
(* Arbitrary-precision naturals (math/big's nat): little-endian sequences  *)
(* of limbs in base 2^LimbBits without leading zero limbs; <<>> is 0.      *)
(***************************************************************************)
LimbBits == 14

RECURSIVE Pow2(_)
Pow2(k) == IF k = 0 THEN 1 ELSE 2 * Pow2(k - 1)

Base == Pow2(LimbBits)

RECURSIVE NatLimbs(_)
NatLimbs(n) == IF n = 0 THEN <<>> ELSE <<n % Base>> \o NatLimbs(n \div Base)

RECURSIVE Trim(_)
Trim(a) ==
  IF a = <<>> THEN <<>>
  ELSE IF a[Len(a)] = 0 THEN Trim(SubSeq(a, 1, Len(a) - 1)) ELSE a

LimbAt(a, i) == IF i >= 1 /\ i <= Len(a) THEN a[i] ELSE 0

RECURSIVE AddFrom(_, _, _, _)
AddFrom(a, b, i, carry) ==
  IF i > Len(a) /\ i > Len(b)
    THEN (IF carry = 0 THEN <<>> ELSE <<carry>>)
    ELSE LET s == LimbAt(a, i) + LimbAt(b, i) + carry
         IN  <<s % Base>> \o AddFrom(a, b, i + 1, s \div Base)

AddLimbs(a, b) == Trim(AddFrom(a, b, 1, 0))

\* a times the single limb d
RECURSIVE MulLimbFrom(_, _, _, _)
MulLimbFrom(a, d, i, carry) ==
  IF i > Len(a)
    THEN (IF carry = 0 THEN <<>> ELSE <<carry>>)
    ELSE LET s == a[i] * d + carry
         IN  <<s % Base>> \o MulLimbFrom(a, d, i + 1, s \div Base)

ShiftLimbs(a, q) == IF a = <<>> THEN <<>> ELSE [i \in 1..q |-> 0] \o a

RECURSIVE MulFrom(_, _, _)
MulFrom(a, b, j) ==
  IF j > Len(b) THEN <<>>
  ELSE AddLimbs(ShiftLimbs(Trim(MulLimbFrom(a, b[j], 1, 0)), j - 1),
                MulFrom(a, b, j + 1))

MulLimbs(a, b) == MulFrom(a, b, 1)

RECURSIVE LimbLen(_)
LimbLen(d) == IF d = 0 THEN 0 ELSE 1 + LimbLen(d \div 2)

\* the number of bits of a (nat.bitLen)
BitLen(a) == IF a = <<>> THEN 0 ELSE LimbBits * (Len(a) - 1) + LimbLen(a[Len(a)])

\* a * 2^k
ShiftLeft(a, k) ==
  ShiftLimbs(Trim(MulLimbFrom(a, Pow2(k % LimbBits), 1, 0)), k \div LimbBits)

\* a \div 2^k
ShiftRight(a, k) ==
  LET q == k \div LimbBits
      r == k % LimbBits
  IN  IF q >= Len(a) THEN <<>>
      ELSE Trim([i \in 1..(Len(a) - q) |->
                   (a[i + q] \div Pow2(r))
                   + (LimbAt(a, i + q + 1) % Pow2(r)) * Pow2(LimbBits - r)])

\* a % 2^k = 0
LowBitsZero(a, k) ==
  /\ \A i \in 1..(k \div LimbBits) : LimbAt(a, i) = 0
  /\ LimbAt(a, (k \div LimbBits) + 1) % Pow2(k % LimbBits) = 0

\* bit i of a, bit 0 the lowest
Bit(a, i) == (LimbAt(a, (i \div LimbBits) + 1) \div Pow2(i % LimbBits)) % 2

(***************************************************************************)
(* Floating-point values (float64 and big.Float): neg, mant, exp stand for *)
(* (-1)^neg * mant * 2^exp, mant a natural as above.                       *)
(***************************************************************************)
Float(neg, mant, exp) == [neg |-> neg, mant |-> mant, exp |-> exp]

\* A float64 of significand hi * 2^26 + lo and exponent exp.
F64(hi, lo, exp) ==
  Float(FALSE, AddLimbs(ShiftLeft(NatLimbs(hi), 26), NatLimbs(lo)), exp)

\* A float64 holding the small natural n.
F64Int(n) == Float(FALSE, NatLimbs(n), 0)

\* The precision big.NewFloat gives its result, which Mul takes over.
FloatPrec == 53

\* big.Float rounding (ToNearestEven, the zero value of RoundingMode) of
\* mant * 2^exp to prec significant bits.
RoundFloat(neg, mant, exp, prec) ==
  IF BitLen(mant) <= prec THEN Float(neg, mant, exp)
  ELSE LET d      == BitLen(mant) - prec
           kept   == ShiftRight(mant, d)
           rbit   == Bit(mant, d - 1)
           sticky == ~LowBitsZero(mant, d - 1)
           up     == rbit = 1 /\ (sticky \/ Bit(kept, 0) = 1)
       IN  Float(neg, IF up THEN AddLimbs(kept, <<1>>) ELSE kept, exp + d)

\* big.Float.Mul with a receiver of precision 0: the exact product rounded
\* to the larger of the operands' precisions.
FloatMul(x, y) ==
  RoundFloat(x.neg # y.neg, MulLimbs(x.mant, y.mant), x.exp + y.exp, FloatPrec)

\* big.Float.IsInt
FloatIsInt(x) ==
  \/ x.mant = <<>>
  \/ x.exp >= 0
  \/ (-x.exp < BitLen(x.mant) /\ LowBitsZero(x.mant, -x.exp))

\* big.Float.Int: the value truncated towards zero, as a big.Int.
FloatInt(x) ==
  LET mag == IF x.exp >= 0 THEN ShiftLeft(x.mant, x.exp)
             ELSE ShiftRight(x.mant, -x.exp)
  IN  [neg |-> x.neg /\ mag # <<>>, mag |-> mag]

\* var conversionFactor = big.NewFloat(100000000)
conversionFactor == F64Int(100000000)

\* A big.Int of the small natural n times 10^8 (for stating expected amounts).
Wei(n) == [neg |-> FALSE, mag |-> MulLimbs(NatLimbs(n), NatLimbs(100000000))]

(***************************************************************************)
(* Results of the package's functions: a big.Int and an error.             *)
(***************************************************************************)
NoErr == "nil"
ErrUnknownPriority == "eth: unknown/unsupported gas priority"
ErrNotInteger == "eth: unable to represent gas price as integer"
ErrTransport == "http.Get error"
ErrDecode == "json decode error"
FetchErrors == {ErrTransport, ErrDecode}

NilInt == [nil |-> TRUE]
Ok(v) == [val |-> v, err |-> NoErr]
Fail(e) == [val |-> NilInt, err |-> e]

\* func parseGasPriceToWei(raw float64) a big.Int and an error
parseGasPriceToWei(raw) ==
  LET gwei == FloatMul(raw, conversionFactor)
  IN  IF ~FloatIsInt(gwei) THEN Fail(ErrNotInteger) ELSE Ok(FloatInt(gwei))

GasPriorityFast == "fast"
GasPriorityFastest == "fastest"
GasPrioritySafeLow == "safeLow"
GasPriorityAverage == "average"

\* parseSuggestedGasPrice with a default case that falls back to the average
parseSuggestedGasPrice_NoDefault(priority, prices) ==
  CASE priority = GasPriorityFast    -> parseGasPriceToWei(prices.Fast)
    [] priority = GasPriorityFastest -> parseGasPriceToWei(prices.Fastest)
    [] priority = GasPrioritySafeLow -> parseGasPriceToWei(prices.SafeLow)
    [] OTHER                         -> parseGasPriceToWei(prices.Average)

\* func parseSuggestedGasPrice(priority GasPriority, prices ethGasStationResponse)
parseSuggestedGasPrice(priority, prices) ==
  CASE priority = GasPriorityFast    -> parseGasPriceToWei(prices.Fast)
    [] priority = GasPriorityFastest -> parseGasPriceToWei(prices.Fastest)
    [] priority = GasPrioritySafeLow -> parseGasPriceToWei(prices.SafeLow)
    [] priority = GasPriorityAverage -> parseGasPriceToWei(prices.Average)
    [] OTHER                         -> Fail(ErrUnknownPriority)

\* type ethGasStationResponse struct
Response(fast, fastest, safeLow, average) ==
  [Fast |-> fast, Fastest |-> fastest, SafeLow |-> safeLow, Average |-> average]

\* var prices ethGasStationResponse (the zero value loadGasPrices returns on error)
ZeroResponse == Response(F64Int(0), F64Int(0), F64Int(0), F64Int(0))

(***************************************************************************)
(* Inputs and bounds.                                                      *)
(***************************************************************************)
\* Total number of calls of the package's API made in a run.
MaxCalls == 3
\* Largest reading of the clock.
MaxTime == 1

\* The concurrent callers (goroutines).
Procs == {1, 2}
\* At most two suggesters are made.
Mgrs == {1, 2}
NoProc == 0
NoMgr == 0

Tiers == {GasPriorityFast, GasPriorityFastest, GasPrioritySafeLow, GasPriorityAverage}
\* Priorities callers pass: the four tiers and one string that is none of them.
Priorities == {GasPriorityFast, GasPrioritySafeLow, "slow"}

\* Values of maxResultAge callers pass.
Durations == {0, 1}

\* Bodies the oracle answers with: {fast: 400, fastest: 500, safeLow: 50,
\* average: 200} and {fast: 410, fastest: 0.1, safeLow: 0.123456789, average: 200}.
QuotesA == Response(F64Int(400), F64Int(500), F64Int(50), F64Int(200))
QuotesB == Response(F64Int(410), F64(53687091, 13421773, -55),
                    F64(132560717, 54092639, -56), F64Int(200))
QuoteSets == {QuotesA, QuotesB}

\* parseSuggestedGasPrice of every priority and response that occurs
Suggested ==
  [priority \in Priorities \cup Tiers, prices \in QuoteSets \cup {ZeroResponse} |->
     parseSuggestedGasPrice(priority, prices)]

NoKey == ""
Keys == {"k1", "k2"}

\* const ETHGasStationURL
ETHGasStationURL == [keyed |-> FALSE, key |-> NoKey]
\* keylink + key
KeyedURL(k) == [keyed |-> TRUE, key |-> k]
NoURL == "no request"

(***************************************************************************)
(* State.                                                                  *)
(***************************************************************************)
VARIABLES
  now,       \* the clock time.Now and time.Since read (monotonic)
  keybased,  \* var keybased bool
  key,       \* var key string
  mgr,       \* the gasPriceManager of each suggester made so far
  mu,        \* the sync.Mutex of each gasPriceManager: the caller holding it
  proc,      \* each caller: the call it is in, its position, locals and result
  hist,      \* history of each suggester's fetches
  sk,        \* history of the SetKey calls
  ncalls,    \* number of calls made so far
  conv       \* a direct call of parseGasPriceToWei: its argument and result

vars == <<now, keybased, key, mgr, mu, proc, hist, sk, ncalls, conv>>

\* type gasPriceManager struct (without the embedded Mutex, which is mu)
Manager(prices, at, maxResultAge) ==
  [made |-> TRUE, latestResponse |-> prices, fetchedAt |-> at,
   maxResultAge |-> maxResultAge]

Unmade ==
  [made |-> FALSE, latestResponse |-> ZeroResponse, fetchedAt |-> 0,
   maxResultAge |-> 0]

\* fetches: the loadGasPrices calls made for the suggester so far, numbered
\* from 1 (the one of its construction); okFetch: the last of them that
\* succeeded; respFrom, atFrom: the fetch latestResponse and fetchedAt are from.
NoHist == [fetches |-> 0, okFetch |-> 0, respFrom |-> 0, atFrom |-> 0]

NoRet == [val |-> NilInt, err |-> "not returned"]

\* no direct call of parseGasPriceToWei
NoConv == [raw |-> F64Int(0), ret |-> NoRet, done |-> FALSE]

Idle ==
  [pc |-> "idle", op |-> "none", m |-> NoMgr, priority |-> "", maxResultAge |-> 0,
   k |-> NoKey, pending |-> {}, url |-> NoURL, prices |-> ZeroResponse,
   err |-> NoErr, since |-> 0, ret |-> NoRet, nfetch |-> 0, retAt |-> 0,
   pre |-> Unmade, arrivedStale |-> FALSE]

Init ==
  /\ now = 0
  /\ keybased = FALSE
  /\ key = NoKey
  /\ mgr = [m \in Mgrs |-> Unmade]
  /\ mu = [m \in Mgrs |-> NoProc]
  /\ proc = [p \in Procs |-> Idle]
  /\ hist = [m \in Mgrs |-> NoHist]
  /\ sk = [last |-> NoKey, raced |-> FALSE, returned |-> FALSE]
  /\ ncalls = 0
  /\ conv = NoConv

\* A call is made by the first idle caller (the callers are interchangeable).
CanCall(p) ==
  /\ proc[p].pc = "idle"
  /\ ncalls < MaxCalls
  /\ \A q \in Procs : q < p => proc[q].pc # "idle"

SetKeyInProgress == \E p \in Procs : proc[p].pc = "setkey"

(***************************************************************************)
(* The clock advances.                                                     *)
(***************************************************************************)
Tick ==
  /\ now < MaxTime
  /\ now' = now + 1
  /\ UNCHANGED <<conv, keybased, key, mgr, mu, proc, hist, sk, ncalls>>

(***************************************************************************)
(* func SetKey(k string): two unsynchronized stores. Nothing orders them   *)
(* for a concurrent reader, so they take effect one at a time in either    *)
(* order.                                                                  *)
(***************************************************************************)
CallSetKey(p) ==
  /\ CanCall(p)
  /\ \E k \in Keys :
       proc' = [proc EXCEPT ![p] =
                  [Idle EXCEPT !.pc = "setkey", !.op = "SetKey", !.k = k,
                               !.pending = {"key", "keybased"}]]
       /\ sk' = [sk EXCEPT !.last = k, !.raced = SetKeyInProgress]
  /\ ncalls' = ncalls + 1
  /\ UNCHANGED <<conv, now, keybased, key, mgr, mu, hist>>

\* the variables after SetKey's store to w
StoreKey(w, k) == IF w = "key" THEN k ELSE key
StoreKeybased(w) == IF w = "keybased" THEN TRUE ELSE keybased

SetKey(p) ==
  /\ proc[p].pc = "setkey"
  /\ \E w \in proc[p].pending :
       /\ key' = StoreKey(w, proc[p].k)
       /\ keybased' = StoreKeybased(w)
       /\ IF proc[p].pending = {w}
            THEN /\ proc' = [proc EXCEPT ![p] = Idle]
                 /\ sk' = [sk EXCEPT !.returned = TRUE]
            ELSE /\ proc' = [proc EXCEPT ![p].pending = @ \ {w}]
                 /\ sk' = sk
  /\ UNCHANGED <<conv, now, mgr, mu, hist, ncalls>>

(***************************************************************************)
(* func loadGasPrices(): the request.                                      *)
(***************************************************************************)
\* the request always going to the public endpoint
RequestURL_Public == ETHGasStationURL

\* the URL of http.Get: keylink + key if keybased, else ETHGasStationURL
RequestURL == IF keybased THEN KeyedURL(key) ELSE ETHGasStationURL

\* A call, with locals c, enters loadGasPrices: keybased and key are read and
\* the request is sent. (keybased only ever changes to true, so reading key
\* together with it gives every pair that reading keybased first and key
\* later can give.)
LoadBegin(c) == [c EXCEPT !.pc = "http", !.url = RequestURL, !.nfetch = @ + 1]

(***************************************************************************)
(* func SuggestGasPrice(priority) and func SuggestFastGasPrice(): the call *)
(* up to the request of loadGasPrices.                                     *)
(***************************************************************************)
SuggestGasPrice(p) ==
  /\ CanCall(p)
  /\ \E priority \in Priorities :
       proc' = [proc EXCEPT ![p] =
                  LoadBegin([Idle EXCEPT !.op = "SuggestGasPrice",
                                         !.priority = priority])]
  /\ ncalls' = ncalls + 1
  /\ UNCHANGED <<conv, now, keybased, key, mgr, mu, hist, sk>>

\* SuggestFastGasPrice passing another priority on
FastPriority_Fastest == GasPriorityFastest

\* the priority SuggestFastGasPrice passes on
FastPriority == GasPriorityFast

\* return SuggestGasPrice(GasPriorityFast)
SuggestFastGasPrice(p) ==
  /\ CanCall(p)
  /\ proc' = [proc EXCEPT ![p] =
                LoadBegin([Idle EXCEPT !.op = "SuggestFastGasPrice",
                                       !.priority = FastPriority])]
  /\ ncalls' = ncalls + 1
  /\ UNCHANGED <<conv, now, keybased, key, mgr, mu, hist, sk>>

\* the callers inside NewGasPriceSuggester that have not built their manager
Constructing ==
  {q \in Procs : proc[q].op = "NewGasPriceSuggester" /\ proc[q].pc \in {"http", "make"}}

(***************************************************************************)
(* func NewGasPriceSuggester(maxResultAge): the call up to the request of  *)
(* loadGasPrices.                                                          *)
(***************************************************************************)
NewGasPriceSuggester(p) ==
  /\ CanCall(p)
  /\ Cardinality({m \in Mgrs : mgr[m].made}) + Cardinality(Constructing)
       < Cardinality(Mgrs)
  /\ \E d \in Durations :
       proc' = [proc EXCEPT ![p] =
                  LoadBegin([Idle EXCEPT !.op = "NewGasPriceSuggester",
                                         !.maxResultAge = d])]
  /\ ncalls' = ncalls + 1
  /\ UNCHANGED <<conv, now, keybased, key, mgr, mu, hist, sk>>

(***************************************************************************)
(* func (m *gasPriceManager) suggestCachedGasPrice(priority), called       *)
(* through the closure NewGasPriceSuggester returned: up to the fetch.     *)
(***************************************************************************)
\* NewGasPriceSuggester has returned the closure over m to its caller.
Published(m) ==
  /\ mgr[m].made
  /\ \A p \in Procs : ~(proc[p].op = "NewGasPriceSuggester" /\ proc[p].m = m)

\* The closure is called; the call is at m.Lock(). (arrivedStale records, for
\* the properties only, whether the stored result is stale at this moment; it
\* is kept for as long as the call has not fetched.)
CallSuggest(p) ==
  /\ CanCall(p)
  /\ \E m \in Mgrs, priority \in Priorities :
       /\ Published(m)
       /\ proc' = [proc EXCEPT ![p] =
                     [Idle EXCEPT !.pc = "lock", !.op = "Suggest", !.m = m,
                                  !.priority = priority,
                                  !.arrivedStale =
                                     (now - mgr[m].fetchedAt
                                        > mgr[m].maxResultAge)]]
  /\ ncalls' = ncalls + 1
  /\ UNCHANGED <<conv, now, keybased, key, mgr, mu, hist, sk>>

\* a Lock that does not exclude
CanLock_Always(m) == TRUE

\* sync.Mutex: Lock returns only when no one holds the mutex
CanLock(m) == mu[m] = NoProc

\* the staleness test with >= for >
Expired_AtAge(since, maxResultAge) == since >= maxResultAge

\* time.Since(m.fetchedAt) > m.maxResultAge
Expired(since, maxResultAge) == since > maxResultAge

\* the age tested when the call is made, before m.Lock(), and not again
LockAndCheck_TestsBeforeLock(p) ==
  /\ proc[p].pc = "lock"
  /\ CanLock(proc[p].m)
  /\ mu' = [mu EXCEPT ![proc[p].m] = p]
  /\ LET m     == proc[p].m
         since == now - mgr[m].fetchedAt
         c     == [proc[p] EXCEPT !.pre = mgr[m], !.since = since]
     IN  IF proc[p].arrivedStale
           THEN /\ proc' = [proc EXCEPT ![p] =
                              LoadBegin([c EXCEPT !.arrivedStale = FALSE])]
                /\ hist' = [hist EXCEPT ![m].fetches = @ + 1]
           ELSE /\ proc' = [proc EXCEPT ![p] =
                              [c EXCEPT !.pc = "unlock",
                                        !.ret = Suggested[
                                                  c.priority, mgr[m].latestResponse]]]
                /\ hist' = hist
  /\ UNCHANGED <<conv, now, keybased, key, mgr, sk, ncalls>>

\* the priority examined before the age, a priority that is no tier failing
\* without a fetch
LockAndCheck_TierFirst(p) ==
  /\ proc[p].pc = "lock"
  /\ CanLock(proc[p].m)
  /\ mu' = [mu EXCEPT ![proc[p].m] = p]
  /\ LET m     == proc[p].m
         since == now - mgr[m].fetchedAt
         c     == [proc[p] EXCEPT !.pre = mgr[m], !.since = since]
     IN  IF Expired(since, mgr[m].maxResultAge) /\ c.priority \in Tiers
           THEN /\ proc' = [proc EXCEPT ![p] =
                              LoadBegin([c EXCEPT !.arrivedStale = FALSE])]
                /\ hist' = [hist EXCEPT ![m].fetches = @ + 1]
           ELSE /\ proc' = [proc EXCEPT ![p] =
                              [c EXCEPT !.pc = "unlock",
                                        !.ret = Suggested[
                                                  c.priority, mgr[m].latestResponse]]]
                /\ hist' = hist
  /\ UNCHANGED <<conv, now, keybased, key, mgr, sk, ncalls>>

\* m.Lock() returns and the age of the stored result is tested; a stale result
\* sends the call into loadGasPrices, a fresh one to
\* return parseSuggestedGasPrice(priority, m.latestResponse)
LockAndCheck(p) ==
  /\ proc[p].pc = "lock"
  /\ CanLock(proc[p].m)
  /\ mu' = [mu EXCEPT ![proc[p].m] = p]
  /\ LET m     == proc[p].m
         since == now - mgr[m].fetchedAt
         c     == [proc[p] EXCEPT !.pre = mgr[m], !.since = since]
     IN  IF Expired(since, mgr[m].maxResultAge)
           THEN /\ proc' = [proc EXCEPT ![p] =
                              LoadBegin([c EXCEPT !.arrivedStale = FALSE])]
                /\ hist' = [hist EXCEPT ![m].fetches = @ + 1]
           ELSE /\ proc' = [proc EXCEPT ![p] =
                              [c EXCEPT !.pc = "unlock",
                                        !.ret = Suggested[
                                                  c.priority, mgr[m].latestResponse]]]
                /\ hist' = hist
  /\ UNCHANGED <<conv, now, keybased, key, mgr, sk, ncalls>>

(***************************************************************************)
(* func loadGasPrices(): the answer, and what each caller does with it up  *)
(* to its next access to shared state.                                     *)
(***************************************************************************)
\* SuggestGasPrice after loadGasPrices: the error, or the parsed price
UncachedResult(priority, prices, err) ==
  IF err # NoErr THEN Fail(err) ELSE Suggested[priority, prices]

\* suggestCachedGasPrice storing what loadGasPrices returned before it looks
\* at the error
LoadFail_StoresFirst(p) ==
  /\ proc[p].pc = "http"
  /\ \E e \in FetchErrors :
       proc' = [proc EXCEPT ![p].pc = IF proc[p].op = "Suggest" THEN "unlock"
                                      ELSE "return",
                            ![p].url = NoURL,
                            ![p].prices = ZeroResponse, ![p].err = e,
                            ![p].ret = UncachedResult(proc[p].priority, ZeroResponse, e)]
  /\ mgr' = IF proc[p].op = "Suggest"
              THEN [mgr EXCEPT ![proc[p].m].latestResponse = ZeroResponse,
                               ![proc[p].m].fetchedAt = now]
              ELSE mgr
  /\ UNCHANGED <<conv, now, keybased, key, mu, hist, sk, ncalls>>

\* suggestCachedGasPrice calling loadGasPrices again after a failure
LoadFail_Retries(p) ==
  /\ proc[p].pc = "http"
  /\ IF proc[p].op = "Suggest"
       THEN /\ proc' = [proc EXCEPT ![p] = LoadBegin(proc[p])]
            /\ hist' = [hist EXCEPT ![proc[p].m].fetches = @ + 1]
       ELSE /\ \E e \in FetchErrors :
                 proc' = [proc EXCEPT ![p].pc = "return", ![p].url = NoURL,
                                      ![p].prices = ZeroResponse, ![p].err = e,
                                      ![p].ret = Fail(e)]
            /\ hist' = hist
  /\ UNCHANGED <<conv, now, keybased, key, mgr, mu, sk, ncalls>>

\* suggestCachedGasPrice answering from the stored response when the fetch fails
LoadFail_ServesStale(p) ==
  /\ proc[p].pc = "http"
  /\ \E e \in FetchErrors :
       proc' = [proc EXCEPT ![p].pc = IF proc[p].op = "Suggest" THEN "unlock"
                                      ELSE "return",
                            ![p].url = NoURL,
                            ![p].prices = ZeroResponse, ![p].err = e,
                            ![p].ret = IF proc[p].op = "Suggest"
                                         THEN Suggested[
                                                proc[p].priority,
                                                mgr[proc[p].m].latestResponse]
                                         ELSE Fail(e)]
  /\ UNCHANGED <<conv, now, keybased, key, mgr, mu, hist, sk, ncalls>>

\* suggestCachedGasPrice returning the error without releasing the lock
LoadFail_KeepsLock(p) ==
  /\ proc[p].pc = "http"
  /\ \E e \in FetchErrors :
       proc' = [proc EXCEPT ![p] =
                  IF proc[p].op = "Suggest" THEN Idle
                  ELSE [proc[p] EXCEPT !.pc = "return", !.url = NoURL,
                                       !.prices = ZeroResponse, !.err = e,
                                       !.ret = Fail(e)]]
  /\ UNCHANGED <<conv, now, keybased, key, mgr, mu, hist, sk, ncalls>>

\* http.Get or the decoding fails: loadGasPrices returns the zero prices and
\* the error, and each of its three callers returns nil and that error
\* (suggestCachedGasPrice through its deferred Unlock).
LoadFail(p) ==
  /\ proc[p].pc = "http"
  /\ \E e \in FetchErrors :
       proc' = [proc EXCEPT ![p].pc = IF proc[p].op = "Suggest" THEN "unlock"
                                      ELSE "return",
                            ![p].url = NoURL,
                            ![p].prices = ZeroResponse, ![p].err = e,
                            ![p].ret = UncachedResult(proc[p].priority, ZeroResponse, e)]
  /\ UNCHANGED <<conv, now, keybased, key, mgr, mu, hist, sk, ncalls>>

\* The body is decoded into prices and loadGasPrices returns them.
\* SuggestGasPrice goes on to return parseSuggestedGasPrice(priority, prices).
LoadOk(p) ==
  /\ proc[p].pc = "http"
  /\ \E q \in QuoteSets :
       /\ proc' = [proc EXCEPT
                     ![p].pc = CASE proc[p].op = "Suggest" -> "loaded"
                                 [] proc[p].op = "NewGasPriceSuggester" -> "make"
                                 [] OTHER -> "return",
                     ![p].url = NoURL,
                     ![p].prices = q, ![p].err = NoErr,
                     ![p].retAt = IF proc[p].op = "NewGasPriceSuggester" THEN now ELSE 0,
                     ![p].pre = Unmade,
                     ![p].ret = IF proc[p].op \in {"Suggest", "NewGasPriceSuggester"}
                                  THEN NoRet
                                  ELSE UncachedResult(proc[p].priority, q, NoErr)]
       /\ hist' = IF proc[p].m = NoMgr THEN hist
                  ELSE [hist EXCEPT ![proc[p].m].okFetch = hist[proc[p].m].fetches]
  /\ UNCHANGED <<conv, now, keybased, key, mgr, mu, sk, ncalls>>

(***************************************************************************)
(* NewGasPriceSuggester after a successful loadGasPrices.                  *)
(***************************************************************************)
\* one manager shared by all the suggesters
FreshMgr_Shared == CHOOSE m \in Mgrs : \A n \in Mgrs : m <= n

\* the next gasPriceManager to be allocated
FreshMgr == CHOOSE m \in Mgrs : ~mgr[m].made /\ \A n \in Mgrs : n < m => mgr[n].made

\* the manager literal with fetchedAt left at its zero value
NewManager_NoStamp(prices, at, maxResultAge) == Manager(prices, 0, maxResultAge)

\* gasPriceManager{latestResponse: prices, fetchedAt: time.Now(), maxResultAge: maxResultAge}
NewManager(prices, at, maxResultAge) == Manager(prices, at, maxResultAge)

\* The manager is built; the closure over it is the result.
NewGasPriceSuggesterMake(p) ==
  /\ proc[p].pc = "make"
  /\ LET m == FreshMgr IN
       /\ mgr' = [mgr EXCEPT ![m] = NewManager(proc[p].prices, now,
                                               proc[p].maxResultAge)]
       /\ hist' = [hist EXCEPT ![m] =
                     [fetches |-> 1, okFetch |-> 1, respFrom |-> 1, atFrom |-> 1]]
       /\ proc' = [proc EXCEPT ![p].pc = "return", ![p].m = m,
                               ![p].ret = Ok([suggester |-> m])]
  /\ UNCHANGED <<conv, now, keybased, key, mu, sk, ncalls>>

\* SuggestGasPrice, SuggestFastGasPrice or NewGasPriceSuggester returns ret.
Return(p) ==
  /\ proc[p].pc = "return"
  /\ proc' = [proc EXCEPT ![p] = Idle]
  /\ UNCHANGED <<conv, now, keybased, key, mgr, mu, hist, sk, ncalls>>

(***************************************************************************)
(* suggestCachedGasPrice after a successful loadGasPrices.                 *)
(***************************************************************************)
\* the lock given up between the two stores
StoreResponse_Unlocks(p) ==
  /\ proc[p].pc = "loaded"
  /\ mgr' = [mgr EXCEPT ![proc[p].m].latestResponse = proc[p].prices]
  /\ hist' = [hist EXCEPT ![proc[p].m].respFrom = hist[proc[p].m].fetches]
  /\ proc' = [proc EXCEPT ![p].pc = "stamp"]
  /\ mu' = [mu EXCEPT ![proc[p].m] = NoProc]
  /\ UNCHANGED <<conv, now, keybased, key, sk, ncalls>>

\* m.latestResponse = prices
StoreResponse(p) ==
  /\ proc[p].pc = "loaded"
  /\ mgr' = [mgr EXCEPT ![proc[p].m].latestResponse = proc[p].prices]
  /\ hist' = [hist EXCEPT ![proc[p].m].respFrom = hist[proc[p].m].fetches]
  /\ proc' = [proc EXCEPT ![p].pc = "stamp"]
  /\ UNCHANGED <<conv, now, keybased, key, mu, sk, ncalls>>

\* the refresh without the assignment to fetchedAt
StoreFetchedAt_NoStamp(p) ==
  /\ proc[p].pc = "stamp"
  /\ proc' = [proc EXCEPT ![p].pc = "unlock",
                          ![p].ret = Suggested[
                                       proc[p].priority,
                                       mgr[proc[p].m].latestResponse]]
  /\ UNCHANGED <<conv, now, keybased, key, mgr, mu, hist, sk, ncalls>>

\* m.fetchedAt = time.Now(), and
\* return parseSuggestedGasPrice(priority, m.latestResponse)
StoreFetchedAt(p) ==
  /\ proc[p].pc = "stamp"
  /\ mgr' = [mgr EXCEPT ![proc[p].m].fetchedAt = now]
  /\ hist' = [hist EXCEPT ![proc[p].m].atFrom = hist[proc[p].m].fetches]
  /\ proc' = [proc EXCEPT ![p].pc = "unlock",
                          ![p].ret = Suggested[
                                       proc[p].priority,
                                       mgr[proc[p].m].latestResponse]]
  /\ UNCHANGED <<conv, now, keybased, key, mu, sk, ncalls>>

\* defer m.Unlock(), and the call returns ret
Unlock(p) ==
  /\ proc[p].pc = "unlock"
  /\ mu' = [mu EXCEPT ![proc[p].m] = NoProc]
  /\ proc' = [proc EXCEPT ![p] = Idle]
  /\ UNCHANGED <<conv, now, keybased, key, mgr, hist, sk, ncalls>>

Next ==
  \/ Tick
  \/ \E p \in Procs :
       \/ CallSetKey(p) \/ SetKey(p)
       \/ SuggestGasPrice(p) \/ SuggestFastGasPrice(p)
       \/ NewGasPriceSuggester(p)
       \/ CallSuggest(p) \/ LockAndCheck(p)
       \/ LoadFail(p) \/ LoadOk(p)
       \/ NewGasPriceSuggesterMake(p) \/ Return(p)
       \/ StoreResponse(p) \/ StoreFetchedAt(p) \/ Unlock(p)

Spec == Init /\ [][Next]_vars

(***************************************************************************)
(* func parseGasPriceToWei(raw float64), called on its own.                *)
(***************************************************************************)
\* Largest significand and largest negated exponent of the small arguments.
MaxMant == 12
MaxExp == 10

\* The float64 arguments: every (-1)^neg * k * 2^(-e) within the bounds, the
\* quotes 400, 500, 50, 200, 0.1 and 0.123456789, and the wide values
\* 2^35 + 1 and 2^40 + 2^-9.
RawInputs ==
  {Float(neg, NatLimbs(k), -e) : neg \in BOOLEAN, k \in 0..MaxMant, e \in 0..MaxExp}
    \cup {F64Int(400), F64Int(500), F64Int(50), F64Int(200),
          F64(53687091, 13421773, -55), F64(132560717, 54092639, -56),
          F64(512, 1, 0), F64(8388608, 1, -9)}

ConvInit ==
  /\ now = 0
  /\ keybased = FALSE
  /\ key = NoKey
  /\ mgr = [m \in Mgrs |-> Unmade]
  /\ mu = [m \in Mgrs |-> NoProc]
  /\ proc = [p \in Procs |-> Idle]
  /\ hist = [m \in Mgrs |-> NoHist]
  /\ sk = [last |-> NoKey, raced |-> FALSE, returned |-> FALSE]
  /\ ncalls = 0
  /\ conv \in {[raw |-> r, ret |-> NoRet, done |-> FALSE] : r \in RawInputs}

\* parseGasPriceToWei(raw) returns
CallParseGasPriceToWei ==
  /\ ~conv.done
  /\ conv' = [conv EXCEPT !.ret = parseGasPriceToWei(conv.raw), !.done = TRUE]
  /\ UNCHANGED <<now, keybased, key, mgr, mu, proc, hist, sk, ncalls>>

ConvNext == CallParseGasPriceToWei

ConvSpec == ConvInit /\ [][ConvNext]_vars

(***************************************************************************)
(* Scheduling: every http.Get returns (with a body or an error), a caller  *)
(* blocked in m.Lock() gets the mutex if it is released again and again,   *)
(* and a caller that can take its next step takes it.                      *)
(***************************************************************************)
\* the steps of caller p inside suggestCachedGasPrice once it has the lock
Proceed(p) ==
  LoadFail(p) \/ LoadOk(p) \/ StoreResponse(p) \/ StoreFetchedAt(p) \/ Unlock(p)

Fairness ==
  \A p \in Procs : WF_vars(Proceed(p)) /\ SF_vars(LockAndCheck(p))

FairSpec == Spec /\ Fairness

(***************************************************************************)
(* Properties.                                                             *)
(***************************************************************************)
\* p is inside suggestCachedGasPrice, past m.Lock()
InCritical(p) ==
  proc[p].op = "Suggest" /\ proc[p].pc \in {"http", "loaded", "stamp", "unlock"}

\* p is inside suggestCachedGasPrice with its result in hand, about to unlock
AtResult(p) == proc[p].op = "Suggest" /\ proc[p].pc = "unlock"

\* p is about to return from one of the uncached functions
AtUncachedReturn(p) ==
  proc[p].op \in {"SuggestGasPrice", "SuggestFastGasPrice"} /\ proc[p].pc = "return"

\* p is about to return from NewGasPriceSuggester
AtNewReturn(p) == proc[p].op = "NewGasPriceSuggester" /\ proc[p].pc = "return"

\* C1: as long as the clock is within maxResultAge (> 0) of the fetchedAt that
\* the construction recorded, the suggester has made exactly one fetch (the
\* construction's), no Suggest call on it has fetched, and every Suggest call
\* returns the amount of its tier in the response of the construction (so
\* calls for the same tier return identical amounts).
C1_FreshWindowNoFetch ==
  \A m \in Mgrs :
    ( /\ mgr[m].made
      /\ mgr[m].maxResultAge > 0
      /\ hist[m].atFrom = 1
      /\ now - mgr[m].fetchedAt <= mgr[m].maxResultAge )
    => /\ hist[m].fetches = 1
       /\ hist[m].respFrom = 1
       /\ \A p \in Procs :
            (proc[p].op = "Suggest" /\ proc[p].m = m)
              => /\ proc[p].nfetch = 0
                 /\ AtResult(p) =>
                      proc[p].ret = parseSuggestedGasPrice(proc[p].priority,
                                                          mgr[m].latestResponse)

\* C1 witness: time has passed since the construction, a Suggest call has its
\* amount from the cache and another Suggest call on the same suggester waits.
C1_Witness ==
  \E p, q \in Procs :
    /\ AtResult(p) /\ proc[p].nfetch = 0 /\ proc[p].ret.err = NoErr
    /\ mgr[proc[p].m].maxResultAge > 0
    /\ proc[p].since = mgr[proc[p].m].maxResultAge
    /\ hist[proc[p].m].fetches = 1
    /\ proc[q].op = "Suggest" /\ proc[q].pc = "lock" /\ proc[q].m = proc[p].m

\* C2: a Suggest call that found the cache stale and whose fetch failed returns
\* that error and no amount, and the manager is what it was when the call took
\* the lock (latestResponse, fetchedAt and maxResultAge unchanged).
C2_FailedRefreshKeepsCache ==
  \A p \in Procs :
    (AtResult(p) /\ proc[p].nfetch = 1 /\ proc[p].err # NoErr)
      => /\ proc[p].ret = Fail(proc[p].err)
         /\ proc[p].err \in FetchErrors
         /\ proc[p].since > mgr[proc[p].m].maxResultAge
         /\ mgr[proc[p].m] = proc[p].pre

\* C2 witness: a refresh has failed on a cache that holds a real response.
C2_Witness ==
  \E p \in Procs :
    /\ AtResult(p) /\ proc[p].nfetch = 1 /\ proc[p].err = ErrDecode
    /\ mgr[proc[p].m].latestResponse \in QuoteSets
    /\ now > mgr[proc[p].m].fetchedAt

\* C3: a Suggest call past the staleness test has fetched exactly if the age it
\* measured is strictly greater than maxResultAge (an age equal to maxResultAge
\* is fresh); after a successful fetch, when the call has its result, both
\* latestResponse and fetchedAt are those of that fetch and the result is the
\* amount of the tier in the fetched response.
C3_FetchIffStale ==
  \A p \in Procs :
    InCritical(p) =>
      LET m == proc[p].m IN
        /\ proc[p].nfetch \in {0, 1}
        /\ proc[p].nfetch = 1 <=> proc[p].since > mgr[m].maxResultAge
        /\ (AtResult(p) /\ proc[p].nfetch = 1 /\ proc[p].err = NoErr)
             => /\ mgr[m].latestResponse = proc[p].prices
                /\ hist[m].respFrom = hist[m].fetches
                /\ hist[m].atFrom = hist[m].fetches
                /\ hist[m].fetches >= 2
                /\ mgr[m].fetchedAt <= now
                /\ mgr[m].fetchedAt > 0
                /\ proc[p].ret = parseSuggestedGasPrice(proc[p].priority,
                                                        proc[p].prices)

\* C3 witness: a cache of age maxResultAge + 1 was refreshed with a new response.
C3_Witness ==
  \E p \in Procs :
    /\ AtResult(p) /\ proc[p].nfetch = 1 /\ proc[p].err = NoErr
    /\ proc[p].since = mgr[proc[p].m].maxResultAge + 1
    /\ proc[p].prices = QuotesB
    /\ proc[p].ret = Ok(Wei(410))

\* C4 as stated: with maxResultAge = 0 every Suggest call fetches, also one
\* made at the clock reading of the construction or of the last refresh.
C4_AlwaysFetchesAtZero ==
  \A p \in Procs :
    (InCritical(p) /\ mgr[proc[p].m].maxResultAge = 0) => proc[p].nfetch = 1

\* C4 amended: with maxResultAge = 0 a Suggest call fetches exactly if the
\* clock it reads is strictly later than fetchedAt; a call at the same clock
\* reading as the construction or the last refresh is served from the cache
\* without a fetch.
C4_FetchesAtZeroIffLater ==
  \A p \in Procs :
    (InCritical(p) /\ mgr[proc[p].m].maxResultAge = 0)
      => /\ proc[p].since >= 0
         /\ proc[p].nfetch = (IF proc[p].since > 0 THEN 1 ELSE 0)

\* C4 witness: maxResultAge = 0 and a call served from the cache at the clock
\* reading of the construction.
C4_Witness ==
  \E p \in Procs :
    /\ AtResult(p) /\ mgr[proc[p].m].maxResultAge = 0
    /\ proc[p].since = 0 /\ proc[p].nfetch = 0
    /\ proc[p].ret = Ok(Wei(400))

\* C5: whenever the suggester's lock is free, latestResponse and fetchedAt are
\* both from the most recent successful fetch of the suggester; and a Suggest
\* call that has computed its result from latestResponse did so with
\* latestResponse and fetchedAt from that same fetch.
C5_ResponseAndStampAgree ==
  \A m \in Mgrs :
    mgr[m].made =>
      /\ mu[m] = NoProc
           => /\ hist[m].respFrom = hist[m].okFetch
              /\ hist[m].atFrom = hist[m].okFetch
      /\ \A p \in Procs :
           (AtResult(p) /\ proc[p].m = m /\ proc[p].err = NoErr)
             => /\ hist[m].respFrom = hist[m].okFetch
                /\ hist[m].atFrom = hist[m].okFetch

\* C5 witness: the lock is free after a refresh that replaced both fields.
C5_Witness ==
  \E m \in Mgrs :
    /\ mgr[m].made /\ mu[m] = NoProc
    /\ hist[m].okFetch = 2 /\ hist[m].respFrom = 2 /\ hist[m].atFrom = 2
    /\ mgr[m].fetchedAt > 0

\* C6: a caller inside the section from the staleness test to the return holds
\* the suggester's lock, so at most one caller is inside it and at most one
\* refresh fetch of a suggester is in flight.
C6_MutualExclusion ==
  /\ \A p \in Procs : InCritical(p) => mu[proc[p].m] = p
  /\ \A p, q \in Procs :
       (p # q /\ InCritical(p) /\ InCritical(q)) => proc[p].m # proc[q].m
  /\ \A m \in Mgrs :
       /\ Cardinality({p \in Procs : InCritical(p) /\ proc[p].m = m
                                        /\ proc[p].pc = "http"}) <= 1
       /\ mu[m] # NoProc => (InCritical(mu[m]) /\ proc[mu[m]].m = m)

\* C6 witness: a refresh fetch is in flight and another Suggest call on the
\* same suggester waits for the lock.
C6_Witness ==
  \E p, q \in Procs :
    /\ InCritical(p) /\ proc[p].pc = "http"
    /\ proc[q].op = "Suggest" /\ proc[q].pc = "lock" /\ proc[q].m = proc[p].m

\* C7 as stated: a Suggest call with a priority that is none of the four tiers
\* fails with the unknown-priority error.
C7_UnknownTierError ==
  \A p \in Procs :
    (AtResult(p) /\ proc[p].priority \notin Tiers)
      => proc[p].ret = Fail(ErrUnknownPriority)

\* C7 amended: a Suggest call with a priority that is none of the four tiers
\* returns no amount; it fails with the unknown-priority error unless it had
\* to refresh and the fetch failed, and then it fails with the fetch error;
\* on a fresh cache it makes no fetch and leaves the manager unchanged.
C7_UnknownTierFails ==
  \A p \in Procs :
    (AtResult(p) /\ proc[p].priority \notin Tiers)
      => LET m == proc[p].m IN
           /\ proc[p].ret.val = NilInt
           /\ proc[p].ret.err = (IF proc[p].err # NoErr THEN proc[p].err
                                 ELSE ErrUnknownPriority)
           /\ proc[p].err # NoErr => proc[p].nfetch = 1
           /\ proc[p].since <= mgr[m].maxResultAge
                => /\ proc[p].nfetch = 0
                   /\ proc[p].ret = Fail(ErrUnknownPriority)
                   /\ mgr[m] = proc[p].pre
                   /\ hist[m].fetches = hist[m].okFetch

\* C7 witness: an unknown priority on a fresh cache.
C7_Witness ==
  \E p \in Procs :
    /\ AtResult(p) /\ proc[p].priority \notin Tiers
    /\ proc[p].nfetch = 0
    /\ proc[p].ret = Fail(ErrUnknownPriority)

\* C8: NewGasPriceSuggester, about to return, has made exactly one fetch; if
\* the fetch failed it returns the error and no suggester, and no manager was
\* built; if it succeeded it returns the closure over a new manager holding
\* the fetched prices, a fetchedAt read after the fetch returned, and the
\* maxResultAge passed in.
C8_Construction ==
  \A p \in Procs :
    AtNewReturn(p) =>
      /\ proc[p].nfetch = 1
      /\ proc[p].err # NoErr
           => /\ proc[p].ret = Fail(proc[p].err)
              /\ proc[p].m = NoMgr
      /\ proc[p].err = NoErr
           => LET m == proc[p].m IN
                /\ m \in Mgrs
                /\ proc[p].ret = Ok([suggester |-> m])
                /\ mgr[m].made
                /\ mgr[m].latestResponse = proc[p].prices
                /\ mgr[m].maxResultAge = proc[p].maxResultAge
                /\ proc[p].retAt <= mgr[m].fetchedAt
                /\ mgr[m].fetchedAt <= now
                /\ hist[m].fetches = 1
                /\ mu[m] = NoProc

\* C8 witness: a construction whose fetch returned before the clock reading
\* stored in fetchedAt.
C8_Witness ==
  \E p \in Procs :
    /\ AtNewReturn(p) /\ proc[p].err = NoErr
    /\ proc[p].retAt < mgr[proc[p].m].fetchedAt
    /\ mgr[proc[p].m].maxResultAge = 1

\* a step of caller p
StepOf(p) == proc'[p] # proc[p]

\* C9: SuggestGasPrice and SuggestFastGasPrice, about to return, have made
\* exactly one fetch and return the error of that fetch or the amount of the
\* priority in the prices of that fetch, SuggestFastGasPrice what
\* SuggestGasPrice returns for "fast" on the same answer; no step of theirs
\* changes a manager, its lock or its fetch history.
C9_Uncached ==
  /\ [](\A p \in Procs :
          AtUncachedReturn(p) =>
            /\ proc[p].nfetch = 1
            /\ proc[p].m = NoMgr
            /\ \A m \in Mgrs : mu[m] # p
            /\ proc[p].ret = (IF proc[p].err # NoErr THEN Fail(proc[p].err)
                              ELSE parseSuggestedGasPrice(proc[p].priority,
                                                          proc[p].prices))
            /\ proc[p].op = "SuggestFastGasPrice"
                 => proc[p].ret = (IF proc[p].err # NoErr THEN Fail(proc[p].err)
                                   ELSE parseGasPriceToWei(proc[p].prices.Fast)))
  /\ [][\A p \in Procs :
          (StepOf(p) /\ ( \/ proc[p].op \in {"SuggestGasPrice", "SuggestFastGasPrice"}
                          \/ proc'[p].op \in {"SuggestGasPrice", "SuggestFastGasPrice"} ))
            => (mgr' = mgr /\ mu' = mu /\ hist' = hist)]_vars

\* C9 witness: SuggestFastGasPrice returns an amount while a suggester exists
\* whose refresh is in flight.
C9_Witness ==
  \E p, q \in Procs :
    /\ AtUncachedReturn(p) /\ proc[p].op = "SuggestFastGasPrice"
    /\ proc[p].ret = Ok(Wei(410))
    /\ InCritical(q) /\ proc[q].pc = "http"

\* caller p enters loadGasPrices in this step
FetchBegins(p) == proc[p].pc # "http" /\ proc'[p].pc = "http"

\* C10: a fetch that begins before any SetKey call uses the public endpoint; a
\* fetch that begins after a SetKey call has returned uses the keyed endpoint
\* with a key passed to SetKey, and with the key k of the latest SetKey call
\* when that call has returned and ran alone; this holds for the fetches of
\* the uncached functions, of constructions and of refreshes alike; and
\* keybased, once true, stays true.
C10_EndpointSelection ==
  [][ /\ keybased => keybased'
      /\ \A p \in Procs :
           FetchBegins(p) =>
             /\ sk.last = NoKey => proc'[p].url = ETHGasStationURL
             /\ sk.returned => (proc'[p].url.keyed /\ proc'[p].url.key \in Keys)
             /\ (sk.returned /\ ~SetKeyInProgress /\ ~sk.raced)
                  => proc'[p].url = KeyedURL(sk.last) ]_vars

\* C10 witness: the refresh of a suggester is sent to the keyed endpoint with
\* the key of the SetKey call that returned.
C10_Witness ==
  \E p \in Procs :
    /\ InCritical(p) /\ proc[p].pc = "http"
    /\ sk.returned /\ ~SetKeyInProgress /\ sk.last = "k2"
    /\ proc[p].url = KeyedURL("k2")

(***************************************************************************)
(* The conversion, stated on the exact value of raw * 10^8.                *)
(***************************************************************************)
\* the significand of the exact product raw * 100000000 (its exponent is raw.exp)
ExactMant(raw) == MulLimbs(raw.mant, conversionFactor.mant)

\* raw * 10^8 is an integer
ExactIsInt(raw) == raw.exp >= 0 \/ LowBitsZero(ExactMant(raw), -raw.exp)

\* the integer raw * 10^8, when it is one
ExactInt(raw) ==
  LET mag == IF raw.exp >= 0 THEN ShiftLeft(ExactMant(raw), raw.exp)
             ELSE ShiftRight(ExactMant(raw), -raw.exp)
  IN  [neg |-> raw.neg /\ mag # <<>>, mag |-> mag]

\* C11: for every raw for which raw * 10^8 is an exact integer,
\* parseGasPriceToWei returns exactly that integer and no error; with the
\* quotes {fast: 400, fastest: 500, safeLow: 50, average: 200} "fast" gives
\* 40000000000 and "safeLow" 5000000000, and each tier selects its own field.
C11_ExactConversion ==
  /\ (conv.done /\ ExactIsInt(conv.raw)) => conv.ret = Ok(ExactInt(conv.raw))
  /\ parseSuggestedGasPrice(GasPriorityFast, QuotesA) = Ok(Wei(400))
  /\ parseSuggestedGasPrice(GasPrioritySafeLow, QuotesA) = Ok(Wei(50))
  /\ parseSuggestedGasPrice(GasPriorityFastest, QuotesA) = Ok(Wei(500))
  /\ parseSuggestedGasPrice(GasPriorityAverage, QuotesA) = Ok(Wei(200))

\* C12: for every raw for which raw * 10^8 is not an exact integer,
\* parseGasPriceToWei fails with the not-an-integer error and returns no
\* amount, never a rounded or truncated integer.
C12_NonIntegralFails ==
  (conv.done /\ ~ExactIsInt(conv.raw)) => conv.ret = Fail(ErrNotInteger)

\* the fetch of the Suggest call p returns with an error in this step
RefreshFails(p) ==
  /\ proc[p].op = "Suggest" /\ proc[p].pc = "http"
  /\ proc'[p].pc # "http" /\ proc'[p].err # NoErr

\* the Suggest call p gets the lock and tests the age in this step
TakesLock(p) == proc[p].pc = "lock" /\ proc'[p].pc # "lock"

\* C13: a Suggest call makes at most one fetch; when its fetch fails the call
\* goes straight to its return with that error and no amount, without another
\* fetch, and that step changes neither the manager nor any other caller; a
\* call returns a fetch error only if its own fetch failed with it; after a
\* failed refresh fetchedAt is still the one of the last successful fetch, and
\* the next call that takes the lock measures the age against the stored
\* fetchedAt and fetches exactly if that age exceeds maxResultAge.
C13_NoRetry ==
  /\ [](\A p \in Procs :
          proc[p].op = "Suggest" =>
            /\ proc[p].nfetch \in {0, 1}
            /\ (AtResult(p) /\ proc[p].ret.err \in FetchErrors)
                 => /\ proc[p].nfetch = 1
                    /\ proc[p].err = proc[p].ret.err
                    /\ proc[p].ret.val = NilInt
                    /\ mgr[proc[p].m].fetchedAt = proc[p].pre.fetchedAt
                    /\ mgr[proc[p].m].latestResponse = proc[p].pre.latestResponse)
  /\ [](\A m \in Mgrs :
          (mgr[m].made /\ mu[m] = NoProc) => hist[m].atFrom = hist[m].okFetch)
  /\ [][\A p \in Procs :
          /\ RefreshFails(p)
               => /\ proc'[p].pc = "unlock"
                  /\ proc'[p].nfetch = 1
                  /\ proc'[p].ret = Fail(proc'[p].err)
                  /\ mgr' = mgr /\ hist' = hist
                  /\ \A q \in Procs \ {p} : proc'[q] = proc[q]
          /\ TakesLock(p)
               => LET m == proc[p].m IN
                    /\ proc'[p].since = now - mgr[m].fetchedAt
                    /\ proc'[p].nfetch = 1 <=> proc'[p].since > mgr[m].maxResultAge
                    /\ proc'[p].nfetch = 0 <=> proc'[p].pc = "unlock"]_vars

\* C13 witness: after a refresh of the suggester failed, the next Suggest call
\* found the same fetchedAt stale and is fetching on its own.
C13_Witness ==
  \E p \in Procs :
    /\ InCritical(p) /\ proc[p].pc = "http" /\ proc[p].nfetch = 1
    /\ hist[proc[p].m].fetches = 3 /\ hist[proc[p].m].okFetch = 1
    /\ hist[proc[p].m].atFrom = 1
    /\ proc[p].since = now - mgr[proc[p].m].fetchedAt

\* C14: a Suggest call that takes the lock while the stored result is fresh
\* (age <= maxResultAge, measured against the stored fetchedAt) makes no fetch
\* and leaves the manager as it is; in particular a call that was made while
\* the result was stale and got the lock only after another call's refresh
\* computes its result from the refreshed response, which with its fetchedAt
\* is from the last fetch made for the suggester, a successful refresh: the
\* waiting call adds no fetch to the one of the refresh.
C14_HerdOneFetch ==
  \A q \in Procs :
    InCritical(q) =>
      LET m == proc[q].m IN
        /\ proc[q].since <= mgr[m].maxResultAge
             => /\ proc[q].nfetch = 0
                /\ AtResult(q)
                /\ mgr[m] = proc[q].pre
                /\ proc[q].ret = parseSuggestedGasPrice(proc[q].priority,
                                                        mgr[m].latestResponse)
        /\ proc[q].arrivedStale
             => /\ proc[q].since <= mgr[m].maxResultAge
                /\ hist[m].fetches >= 2
                /\ hist[m].okFetch = hist[m].fetches
                /\ hist[m].respFrom = hist[m].fetches
                /\ hist[m].atFrom = hist[m].fetches

\* C14 witness: a call made at a stale cache got the lock after the refresh of
\* another call and has its amount from the refreshed response, the refresh
\* being the only fetch since the construction.
C14_Witness ==
  \E q \in Procs :
    /\ AtResult(q) /\ proc[q].arrivedStale /\ proc[q].nfetch = 0
    /\ proc[q].since = 0 /\ mgr[proc[q].m].fetchedAt = now
    /\ hist[proc[q].m].fetches = 2
    /\ mgr[proc[q].m].latestResponse = QuotesB
    /\ proc[q].ret = Ok(Wei(410))

\* C15: in every step, a manager that exists stays, keeps its maxResultAge,
\* and its fetchedAt does not decrease; and its latestResponse or fetchedAt
\* changes only in a step of a Suggest call on that very suggester that holds
\* its lock, found it stale and whose fetch succeeded. So a tick of the
\* clock, a Suggest call on a fresh cache, the uncached functions, SetKey, a
\* failed refresh, and the construction or use of another suggester leave it
\* unchanged.
C15_CacheFrame ==
  [][\A m \in Mgrs :
       mgr[m].made =>
         /\ mgr'[m].made
         /\ mgr'[m].maxResultAge = mgr[m].maxResultAge
         /\ mgr'[m].fetchedAt >= mgr[m].fetchedAt
         /\ mgr'[m] # mgr[m]
              => \E p \in Procs :
                   /\ StepOf(p)
                   /\ proc[p].op = "Suggest" /\ proc[p].m = m
                   /\ mu[m] = p
                   /\ proc[p].pc \in {"loaded", "stamp"}
                   /\ proc[p].nfetch = 1 /\ proc[p].err = NoErr
                   /\ proc[p].since > mgr[m].maxResultAge
                   /\ \A n \in Mgrs \ {m} : mgr'[n] = mgr[n]]_vars

\* C15 witness: of two suggesters one was refreshed at a later clock reading
\* and the other one still holds what its construction stored.
C15_Witness ==
  \E m, n \in Mgrs :
    /\ m # n /\ mgr[m].made /\ mgr[n].made
    /\ hist[m].atFrom = 2 /\ hist[m].respFrom = 2 /\ mgr[m].fetchedAt = 1
    /\ hist[n].fetches = 1 /\ mgr[n].fetchedAt = 0
    /\ mgr[n].latestResponse # mgr[m].latestResponse

\* C16: a Suggest call that returns an amount computed it from the response
\* its own fetch brought, or from a stored response whose age was at most
\* maxResultAge when the call tested it; a call that found the stored response
\* older than maxResultAge made a fetch attempt of its own, and if that fetch
\* failed it returns the error and no amount.
C16_NoStaleAmount ==
  \A p \in Procs :
    AtResult(p) =>
      LET m == proc[p].m IN
        /\ proc[p].ret.err = NoErr
             => \/ /\ proc[p].nfetch = 1 /\ proc[p].err = NoErr
                   /\ proc[p].since > mgr[m].maxResultAge
                   /\ mgr[m].latestResponse = proc[p].prices
                   /\ proc[p].ret = parseSuggestedGasPrice(proc[p].priority,
                                                           proc[p].prices)
                \/ /\ proc[p].nfetch = 0
                   /\ proc[p].since <= mgr[m].maxResultAge
                   /\ proc[p].ret = parseSuggestedGasPrice(proc[p].priority,
                                                           proc[p].pre.latestResponse)
        /\ proc[p].since > mgr[m].maxResultAge
             => /\ proc[p].nfetch = 1
                /\ proc[p].err # NoErr => /\ proc[p].ret.err = proc[p].err
                                           /\ proc[p].ret.val = NilInt

\* C16 witness: the oracle failed twice in a row; the second Suggest call on
\* the stale cache made its own fetch attempt and returns the error.
C16_Witness ==
  \E p \in Procs :
    /\ AtResult(p) /\ proc[p].nfetch = 1 /\ proc[p].err \in FetchErrors
    /\ proc[p].ret = Fail(proc[p].err)
    /\ hist[proc[p].m].fetches = 3 /\ hist[proc[p].m].okFetch = 1
    /\ mgr[proc[p].m].latestResponse \in QuoteSets

\* C17: a Suggest call has its result (an amount, the fetch error, the
\* unknown-priority error or the not-an-integer error) while it still holds
\* the lock, so the lock is held through the tier lookup and the conversion;
\* the lock is never held by a caller that is not inside a Suggest call on
\* that suggester; and, every fetch returning and the lock being granted
\* fairly, every Suggest call returns (and with it releases the lock).
C17_LockReleased ==
  /\ [](\A p \in Procs : AtResult(p) => mu[proc[p].m] = p)
  /\ [](\A m \in Mgrs :
          mu[m] # NoProc => (proc[mu[m]].op = "Suggest" /\ proc[mu[m]].m = m
                             /\ proc[mu[m]].pc # "idle"))
  /\ \A p \in Procs : (proc[p].op = "Suggest") ~> (proc[p].pc = "idle")

\* C17 witness: a Suggest call holds the lock with the not-an-integer error as
\* its result while another call on the same suggester is blocked in Lock.
C17_Witness ==
  \E p, q \in Procs :
    /\ AtResult(p) /\ proc[p].ret = Fail(ErrNotInteger)
    /\ mu[proc[p].m] = p
    /\ proc[q].op = "Suggest" /\ proc[q].pc = "lock" /\ proc[q].m = proc[p].m

\* C18: a Suggest call with a priority that is none of the four tiers, on a
\* stored result older than maxResultAge, has made a fetch; if the fetch
\* succeeded, latestResponse and fetchedAt are those of that fetch and the
\* call fails with the unknown-priority error; if the fetch failed, the call
\* fails with the fetch error, not the unknown-priority error, and the manager
\* is unchanged.
C18_UnknownTierOnStale ==
  \A p \in Procs :
    (AtResult(p) /\ proc[p].priority \notin Tiers
                 /\ proc[p].since > mgr[proc[p].m].maxResultAge)
      => LET m == proc[p].m IN
           /\ proc[p].nfetch = 1
           /\ proc[p].err = NoErr
                => /\ proc[p].ret = Fail(ErrUnknownPriority)
                   /\ mgr[m].latestResponse = proc[p].prices
                   /\ hist[m].respFrom = hist[m].fetches
                   /\ hist[m].atFrom = hist[m].fetches
                   /\ hist[m].okFetch = hist[m].fetches
                   /\ mgr[m].fetchedAt > 0
           /\ proc[p].err # NoErr
                => /\ proc[p].err \in FetchErrors
                   /\ proc[p].ret = Fail(proc[p].err)
                   /\ proc[p].ret.err # ErrUnknownPriority
                   /\ mgr[m] = proc[p].pre

\* C18 witness: an unknown priority on a stale cache; the fetch succeeded, the
\* cache holds the new response and the call fails with the unknown-priority
\* error.
C18_Witness ==
  \E p \in Procs :
    /\ AtResult(p) /\ proc[p].priority = "slow"
    /\ proc[p].nfetch = 1 /\ proc[p].err = NoErr
    /\ proc[p].ret = Fail(ErrUnknownPriority)
    /\ mgr[proc[p].m].latestResponse = QuotesB
    /\ hist[proc[p].m].atFrom = 2

\* C19: whatever the interleaving of SetKey calls and fetches, a request sent
\* to the keyed endpoint carries a key that was passed to SetKey, never the
\* initial empty key; with two SetKey calls running, one of their two keys.
C19_KeyedFetchHasKey ==
  \A p \in Procs :
    (proc[p].pc = "http" /\ proc[p].url.keyed) => proc[p].url.key \in Keys

====
